---- MODULE Spec2Model ----
(***************************************************************************)
(* Model of the Solana DeFi dashboard renderer (src/app.py).               *)
(*                                                                         *)
(* Two specifications share the variables below:                           *)
(*   FilterSpec  one call of apply_filters (app.py 225-259) on arguments   *)
(*               drawn from bounded sets, ill-typed ones included;         *)
(*   Spec        one run of the script: metadata check, dataset loading,   *)
(*               sidebar widgets, the four data tabs and the footer.       *)
(***************************************************************************)
EXTENDS Integers, Sequences, FiniteSets, TLC

\* ---------------------------------------------------------------- bounds
MaxRows == 2          \* rows of a table passed to apply_filters
MaxOverviewRows == 2  \* rows of the overview table stored on disk
MaxTVL == 2           \* TVL_USD values are 1..MaxTVL (or missing)
MaxN == 2             \* integer top_n arguments are -1..MaxN
MaxExp == 6           \* amounts given to format_currency are m * 10^e, e <= MaxExp
MaxTokens == 2        \* rows of the tables behind the KPI cards of Tab 3 and Tab 4
MaxRenders == 2       \* runs of the script in one browser session
MaxClock == 2         \* datetime.now() is 1..MaxClock
MaxSessionRows == 1   \* rows of the overview table of a session with reruns
MaxFinancialRows == 2 \* rows of the financial table given to add_category_to_financial_data
MaxMappingRows == 2   \* rows of the overview table given to add_category_to_financial_data

\* ---------------------------------------------------------------- values
\* pandas' missing-value marker in a numeric column (pd.isna, app.py 89);
\* every real TVL_USD of the model is >= 1.
NaN == -1
\* the missing-value marker in the Category column (dropna, app.py 195)
NullCat == "<NA>"
Categories == {"DEX", "Lending"}
CatValues == Categories \cup {NullCat}
TVLValues == (1..MaxTVL) \cup {NaN}
Min(a, b) == IF a <= b THEN a ELSE b

\* Comparison of two float cells: any comparison with NaN is False.
Ge(a, b) == a # NaN /\ b # NaN /\ a >= b
Le(a, b) == a # NaN /\ b # NaN /\ a <= b

\* ---------------------------------------------------------------- tables
\* A DataFrame: its columns, the dtype of TVL_USD ("float64", or "object"
\* for a column of values that compare with nothing), and its rows in
\* index order.  Protocol is the row key.  kind "None" is Python's None.
ColNames == {"Protocol", "Category", "TVL_USD", "Market_Cap_USD"}

Row(p, c, v, m) == [Protocol |-> p, Category |-> c, TVL_USD |-> v, Market_Cap_USD |-> m]

Frame(cols, dtype, rows) == [kind |-> "frame", cols |-> cols, tvl_dtype |-> dtype, rows |-> rows]
NoneFrame == [kind |-> "None", cols |-> {}, tvl_dtype |-> "float64", rows |-> <<>>]
\* pd.DataFrame()
EmptyFrame == Frame({}, "float64", <<>>)

\* DataFrame.empty: no rows or no columns
IsEmpty(df) == Len(df.rows) = 0 \/ df.cols = {}

\* The cell values a column can hold, given whether the table has it.
CatCells(cols) == IF "Category" \in cols THEN CatValues ELSE {NullCat}
TVLCells(cols, dtype) == IF "TVL_USD" \in cols /\ dtype = "float64" THEN TVLValues ELSE {NaN}
\* every stored market capitalisation of the model is 5
McapCells(cols) == IF "Market_Cap_USD" \in cols THEN {5} ELSE {NaN}

\* All row sequences of length n over the given cells; row i has key i.
RowSeqs(n, cats, tvls, mcaps) ==
    {[i \in 1..n |-> Row(i, f[i][1], f[i][2], f[i][3])] : f \in [1..n -> cats \X tvls \X mcaps]}

FramesWith(cols, dtype, maxrows) ==
    {Frame(cols, dtype, rows) :
        rows \in UNION {RowSeqs(n, CatCells(cols), TVLCells(cols, dtype), McapCells(cols)) :
                        n \in 0..maxrows}}

\* ------------------------------------------------- Python values as arguments
\* categories: None, a list of category names, or a bare string (ill-typed)
NoneArg == [kind |-> "None", items |-> {}]
ListArg(S) == [kind |-> "list", items |-> S]
StrArg == [kind |-> "str", items |-> {}]
\* tvl_range: None, a tuple of numbers of any length, a pair of strings, or
\* "undefined" when the name was never bound (app.py 204-214)
NoneRange == [kind |-> "None", items |-> <<>>]
TupleRange(t) == [kind |-> "tuple", items |-> t]
StrsRange == [kind |-> "strs", items |-> <<>>]
UndefinedRange == [kind |-> "undefined", items |-> <<>>]
\* top_n: None, a string ("All" or one int() rejects), or an integer
NoneN == [kind |-> "None", s |-> "", n |-> 0]
StrN(s) == [kind |-> "str", s |-> s, n |-> 0]
IntN(n) == [kind |-> "int", s |-> "", n |-> n]

\* bool(x) of an argument
TruthyCategories_ListAlways(c) == c.kind # "None"
TruthyCategories(c) == CASE c.kind = "None" -> FALSE
                         [] c.kind = "list" -> c.items # {}
                         [] OTHER -> TRUE
TruthyRange(r) == CASE r.kind = "None" -> FALSE
                    [] r.kind = "tuple" -> Len(r.items) > 0
                    [] OTHER -> TRUE
TruthyN(t) == CASE t.kind = "None" -> FALSE
                [] t.kind = "str" -> t.s # ""
                [] OTHER -> t.n # 0

\* ------------------------------------------------- exceptions
\* The outcome of evaluating an expression: a value, or a raised exception.
Ok(df) == [exc |-> "none", df |-> df]
Raise(e) == [exc |-> e, df |-> NoneFrame]

\* try: filtered_df = <expr>   except Exception: pass
TryExcept_Reraise(r, unchanged) == r
TryExcept(r, unchanged) == IF r.exc = "none" THEN r ELSE Ok(unchanged)

\* ------------------------------------------------- apply_filters
WithRows(df, rows) == [df EXCEPT !.rows = rows]

\* filtered_df[filtered_df['Category'].isin(categories)]
IsinStep_SkipsFirst(df, categories) ==
    IF categories.kind # "list" THEN Raise("TypeError")
    ELSE LET kept == SelectSeq(df.rows, LAMBDA r : r.Category \in categories.items)
         IN  Ok(WithRows(df, IF kept = << >> THEN kept ELSE Tail(kept)))
IsinStep_KeepsNull(df, categories) ==
    IF categories.kind # "list" THEN Raise("TypeError")
    ELSE Ok(WithRows(df, SelectSeq(df.rows,
                LAMBDA r : r.Category \in categories.items \cup {NullCat})))
IsinStep(df, categories) ==
    IF categories.kind # "list" THEN Raise("TypeError")
    ELSE Ok(WithRows(df, SelectSeq(df.rows, LAMBDA r : r.Category \in categories.items)))

\* min_val, max_val = tvl_range; filtered_df[(TVL_USD >= min_val) & (TVL_USD <= max_val)]
RangeStep_Exclusive(df, tvl_range) ==
    IF tvl_range.kind = "tuple" /\ Len(tvl_range.items) # 2 THEN Raise("ValueError")
    ELSE IF Len(df.rows) > 0 /\ (df.tvl_dtype = "object" \/ tvl_range.kind # "tuple")
         THEN Raise("TypeError")
    ELSE IF tvl_range.kind # "tuple" THEN Ok(df)
    ELSE Ok(WithRows(df, SelectSeq(df.rows,
            LAMBDA r : Ge(r.TVL_USD, tvl_range.items[1]) /\ Le(r.TVL_USD, tvl_range.items[2])
                       /\ r.TVL_USD # tvl_range.items[2])))
RangeStep(df, tvl_range) ==
    IF tvl_range.kind = "tuple" /\ Len(tvl_range.items) # 2 THEN Raise("ValueError")
    ELSE IF Len(df.rows) > 0 /\ (df.tvl_dtype = "object" \/ tvl_range.kind # "tuple")
         THEN Raise("TypeError")
    ELSE IF tvl_range.kind # "tuple" THEN Ok(df)
    ELSE Ok(WithRows(df, SelectSeq(df.rows,
            LAMBDA r : Ge(r.TVL_USD, tvl_range.items[1]) /\ Le(r.TVL_USD, tvl_range.items[2]))))

\* Rows sorted by TVL_USD, largest first; equal values keep their order
\* (keep='first': the first of the largest is taken each time).
MaxTVLOf(rows) == CHOOSE v \in {rows[i].TVL_USD : i \in DOMAIN rows} :
                    \A i \in DOMAIN rows : v >= rows[i].TVL_USD
Without(rows, k) == [i \in 1..(Len(rows) - 1) |-> IF i < k THEN rows[i] ELSE rows[i + 1]]
RECURSIVE SortDescending(_)
SortDescending(rows) ==
    IF rows = <<>> THEN <<>>
    ELSE LET m == MaxTVLOf(rows)
             k == CHOOSE i \in DOMAIN rows :
                    rows[i].TVL_USD = m /\ \A j \in 1..(i - 1) : rows[j].TVL_USD # m
         IN <<rows[k]>> \o SortDescending(Without(rows, k))
RECURSIVE SortDescendingLast(_)
SortDescendingLast(rows) ==
    IF rows = <<>> THEN <<>>
    ELSE LET m == MaxTVLOf(rows)
             k == CHOOSE i \in DOMAIN rows :
                    rows[i].TVL_USD = m /\ \A j \in (i + 1)..Len(rows) : rows[j].TVL_USD # m
         IN <<rows[k]>> \o SortDescendingLast(Without(rows, k))

\* DataFrame.nlargest(n, 'TVL_USD') for n > 0: the n largest non-missing
\* values first, then the rows with a missing value in index order.
nlargest_KeepLast(df, n) ==
    LET valued == SelectSeq(df.rows, LAMBDA r : r.TVL_USD # NaN)
        missing == SelectSeq(df.rows, LAMBDA r : r.TVL_USD = NaN)
        ordered == SortDescendingLast(valued) \o missing
    IN WithRows(df, SubSeq(ordered, 1, Min(n, Len(ordered))))
nlargest_Smallest(df, n) ==
    LET valued == SelectSeq(df.rows, LAMBDA r : r.TVL_USD # NaN)
        missing == SelectSeq(df.rows, LAMBDA r : r.TVL_USD = NaN)
        ordered == SortDescending(valued) \o missing
    IN WithRows(df, SubSeq(ordered, Len(ordered) - Min(n, Len(ordered)) + 1, Len(ordered)))
nlargest(df, n) ==
    LET valued == SelectSeq(df.rows, LAMBDA r : r.TVL_USD # NaN)
        missing == SelectSeq(df.rows, LAMBDA r : r.TVL_USD = NaN)
        ordered == SortDescending(valued) \o missing
    IN WithRows(df, SubSeq(ordered, 1, Min(n, Len(ordered))))

\* n = int(top_n); if n > 0 and len(filtered_df) > 0: nlargest(n, 'TVL_USD')
TopNStep(df, top_n) ==
    IF top_n.kind = "str" THEN Raise("ValueError")
    ELSE IF top_n.n > 0 /\ Len(df.rows) > 0
         THEN IF df.tvl_dtype = "object" THEN Raise("TypeError")
              ELSE Ok(nlargest(df, top_n.n))
    ELSE Ok(df)

\* The three guarded predicates, each on the table the previous one left.
CategoryFilter_Unguarded(df, categories) ==
    IF "Category" \in df.cols
    THEN TryExcept(IsinStep(df, categories), df)
    ELSE Ok(df)
CategoryFilter(df, categories) ==
    IF TruthyCategories(categories) /\ "Category" \in df.cols
    THEN TryExcept(IsinStep(df, categories), df)
    ELSE Ok(df)
RangeFilter(df, tvl_range) ==
    IF TruthyRange(tvl_range) /\ "TVL_USD" \in df.cols
    THEN TryExcept(RangeStep(df, tvl_range), df)
    ELSE Ok(df)
TopNFilter_AllUnchecked(df, top_n) ==
    IF TruthyN(top_n) /\ "TVL_USD" \in df.cols
    THEN TopNStep(df, top_n)
    ELSE Ok(df)
TopNFilter(df, top_n) ==
    IF TruthyN(top_n) /\ ~(top_n.kind = "str" /\ top_n.s = "All") /\ "TVL_USD" \in df.cols
    THEN TryExcept(TopNStep(df, top_n), df)
    ELSE Ok(df)

\* The three blocks in sequence; an exception a block lets through ends the call.
apply_filters_TopNFirst(df, categories, tvl_range, top_n) ==
    IF df.kind = "None" \/ IsEmpty(df) THEN Ok(df)
    ELSE LET s1 == TopNFilter(df, top_n)
             s2 == IF s1.exc # "none" THEN s1 ELSE CategoryFilter(s1.df, categories)
         IN IF s2.exc # "none" THEN s2 ELSE RangeFilter(s2.df, tvl_range)
apply_filters(df, categories, tvl_range, top_n) ==
    IF df.kind = "None" \/ IsEmpty(df) THEN Ok(df)
    ELSE LET s1 == CategoryFilter(df, categories)
             s2 == IF s1.exc # "none" THEN s1 ELSE RangeFilter(s1.df, tvl_range)
         IN IF s2.exc # "none" THEN s2 ELSE TopNFilter(s2.df, top_n)

\* ------------------------------------------------- datasets on disk
\* The logical dataset names of metadata['data_files'].
DataKeys == {"tab1_overview", "tab2_revenue", "tab2_fees", "tab3_metrics",
             "tab4_distribution", "category_analysis", "financial_rankings",
             "summary_stats", "raw_token_holders"}

\* Every table but the overview is kept by its shape: columns, and empty or not.
Shape(cols, empty) == [kind |-> "frame", cols |-> cols, empty |-> empty]
\* pd.DataFrame() where only the shape is kept
EmptyShape == Shape({}, TRUE)
ShapeEmpty(t) == t.empty \/ t.cols = {}
\* A dict, by its keys; {} is Dict({}).
Dict(keys) == [kind |-> "dict", keys |-> keys]
\* key in x: a key of a dict, a column label of a DataFrame
HasKey(x, k) == IF x.kind = "dict" THEN k \in x.keys ELSE k \in x.cols

\* The columns the upstream pipeline writes for each table.
FullCols(key) ==
    CASE key = "tab1_overview" -> ColNames
      [] key = "tab2_revenue" -> {"Protocol", "Revenue_24h", "Revenue_7d", "Revenue_30d"}
      [] key = "tab2_fees" -> {"Protocol", "Fees_24h", "Fees_7d", "Fees_30d"}
      [] key = "tab3_metrics" -> {"Protocol", "Revenue_24h", "Fees_24h", "Market_Cap_USD",
                                  "PF_Ratio", "PR_Ratio", "Fees_Revenue_Ratio_24h"}
      [] key = "tab4_distribution" -> {"protocol_name", "token_symbol", "token_price_usd",
                                       "top_10_holders_share", "gini_coefficient"}
      [] key = "category_analysis" -> {"Category", "Total_TVL"}
      [] key = "top_revenue" -> {"Protocol", "Revenue_24h", "Fees_Revenue_Ratio_24h"}
      [] key = "top_fees" -> {"Protocol", "Fees_24h"}

\* What is wrong with the data directory: nothing, one dataset file that
\* does not exist, or one table written without one of its columns.
NoDefect == [kind |-> "none", table |-> "", col |-> ""]
MissingFile(key) == [kind |-> "missing", table |-> key, col |-> ""]
MissingColumn(key, col) == [kind |-> "gap", table |-> key, col |-> col]
\* a dataset file that exists and that joblib.load cannot read
CorruptFile(key) == [kind |-> "corrupt", table |-> key, col |-> ""]
ColumnGaps == {MissingColumn("tab1_overview", c) : c \in {"Category", "TVL_USD", "Market_Cap_USD"}}
              \cup {MissingColumn("tab3_metrics", c) : c \in {"PF_Ratio", "PR_Ratio"}}
              \cup {MissingColumn("tab2_revenue", "Revenue_24h")}
Defects == {NoDefect} \cup {MissingFile(k) : k \in DataKeys} \cup ColumnGaps
           \cup {CorruptFile(k) : k \in DataKeys}

FileExists(d, key) == ~(d.kind = "missing" /\ d.table = key)
\* joblib.load(filepath) returns
Loads(d, key) == ~(d.kind = "corrupt" /\ d.table = key)
FileCols(d, key) == IF d.kind = "gap" /\ d.table = key THEN FullCols(key) \ {d.col}
                    ELSE FullCols(key)

\* summary_stats as the pipeline writes it
SummaryKeys == {"overview", "financial", "distribution"}
SummaryOverview == [total_protocols |-> 200, total_tvl |-> 900,
                    total_market_cap |-> 700, top_category |-> "Lending"]

\* ------------------------------------------------- numbers and texts of the display
\* The argument of format_currency: None, NaN, or the number m * 10^e.
AmountNone == [kind |-> "None", m |-> 0, e |-> 0]
AmountNaN == [kind |-> "nan", m |-> 0, e |-> 0]
Num(m, e) == [kind |-> "num", m |-> m, e |-> e]
\* A statistic of a column or of the summary record: None, NaN, or num/den.
PyNone == [kind |-> "None", num |-> 0, den |-> 1]
PyNaN == [kind |-> "nan", num |-> 0, den |-> 1]
PyFloat(num, den) == [kind |-> "float", num |-> num, den |-> den]
\* A text: a literal, or a number written with a fixed count of decimals
\* between a prefix and a suffix; Fixed("$", 150, 2, "K") is "$1.50K".
Literal(s) == [kind |-> "literal", s |-> s, digits |-> 0, decimals |-> 0, suffix |-> ""]
Fixed(prefix, digits, decimals, suffix) ==
    [kind |-> "fixed", s |-> prefix, digits |-> digits, decimals |-> decimals,
     suffix |-> suffix]

RECURSIVE SumSeq(_)
SumSeq(s) == IF s = <<>> THEN 0 ELSE s[1] + SumSeq(Tail(s))

RECURSIVE Pow10(_)
Pow10(k) == IF k = 0 THEN 1 ELSE 10 * Pow10(k - 1)

\* amount >= 10^k, for a mantissa of at most four digits
AtLeast(a, k) ==
    IF a.m <= 0 THEN FALSE
    ELSE IF a.e >= k THEN TRUE
    ELSE IF k - a.e > 4 THEN FALSE
    ELSE a.m >= Pow10(k - a.e)

\* f"{x:.2f}" rounds the double x, so a number that ends in 5 at the third
\* decimal goes where its double lies: n/1000 is written upwards exactly
\* for these n among the mantissas of the model (0.005 -> 0.01, 1.235 -> 1.24,
\* and 0.015 -> 0.01, 1.005 -> 1.00, 9.995 -> 9.99).
HalfRoundsUp == {5, 1235}

\* f"{amount / 10^k:.2f}": the number of hundredths written
Hundredths(a, k) ==
    LET s == a.e + 2 - k
        mag == IF a.m < 0 THEN -a.m ELSE a.m
        sign == IF a.m < 0 THEN -1 ELSE 1
    IN IF s >= 0 THEN a.m * Pow10(s)
       ELSE LET unit == Pow10(-s)
                q == mag \div unit
                r == mag % unit
                up == \/ 2 * r > unit
                      \/ 2 * r = unit /\ (mag \div Pow10(-s - 1)) \in HalfRoundsUp
            IN sign * (IF up THEN q + 1 ELSE q)

\* format_currency without the branch of line 95
format_currency_NoThousands(a) ==
    IF a.kind = "None" \/ a.kind = "nan" \/ a.m = 0 THEN Literal("$0")
    ELSE IF AtLeast(a, 9) THEN Fixed("$", Hundredths(a, 9), 2, "B")
    ELSE IF AtLeast(a, 6) THEN Fixed("$", Hundredths(a, 6), 2, "M")
    ELSE Fixed("$", Hundredths(a, 0), 2, "")
format_currency(a) ==
    IF a.kind = "None" \/ a.kind = "nan" \/ a.m = 0 THEN Literal("$0")
    ELSE IF AtLeast(a, 9) THEN Fixed("$", Hundredths(a, 9), 2, "B")
    ELSE IF AtLeast(a, 6) THEN Fixed("$", Hundredths(a, 6), 2, "M")
    ELSE IF AtLeast(a, 3) THEN Fixed("$", Hundredths(a, 3), 2, "K")
    ELSE Fixed("$", Hundredths(a, 0), 2, "")

\* bool(x) and pd.isna(x) of a statistic
Truthy(v) == v.kind = "nan" \/ (v.kind = "float" /\ v.num # 0)
IsNa(v) == v.kind \in {"None", "nan"}

\* f"{v:.<decimals>f}<suffix>" of a float: NaN is written "nan"
FormatFixed(v, decimals, suffix) ==
    CASE v.kind = "nan" -> IF suffix = "%" THEN Literal("nan%") ELSE Literal("nan")
      [] v.kind = "float" ->
            Fixed("", (2 * v.num * Pow10(decimals) + v.den) \div (2 * v.den), decimals, suffix)

\* The values of a column, missing ones dropped.
Present(cells) == SelectSeq(cells, LAMBDA v : v # NaN)
\* Series.mean(): NaN when no value is left
Mean(cells) ==
    IF Present(cells) = <<>> THEN PyNaN
    ELSE PyFloat(SumSeq(Present(cells)), Len(Present(cells)))
\* the k-th smallest of a sequence of numbers
KthSmallest(vals, k) ==
    CHOOSE v \in {vals[i] : i \in DOMAIN vals} :
        /\ Cardinality({i \in DOMAIN vals : vals[i] < v}) < k
        /\ Cardinality({i \in DOMAIN vals : vals[i] <= v}) >= k
\* Series.median(): the middle value, or the mean of the two middle values
Median(cells) ==
    LET vals == Present(cells)
        n == Len(vals)
    IN IF n = 0 THEN PyNaN
       ELSE PyFloat(KthSmallest(vals, (n + 1) \div 2) + KthSmallest(vals, (n + 2) \div 2), 2)

\* ------------------------------------------------- protocol names and the merge
\* A protocol name is the sequence of its characters; a null name is NullName.
NullName == <<"<NA>">>
\* str.lower() of one character
Lower(ch) == CASE ch = "A" -> "a" [] ch = "B" -> "b" [] OTHER -> ch
\* Series.str.lower(): a null stays null
str_lower(s) == IF s = NullName THEN s ELSE [i \in 1..Len(s) |-> Lower(s[i])]
RECURSIVE lstrip(_)
lstrip(s) == IF s # << >> /\ Head(s) = " " THEN lstrip(Tail(s)) ELSE s
RECURSIVE rstrip(_)
rstrip(s) == IF s # << >> /\ s[Len(s)] = " " THEN rstrip(SubSeq(s, 1, Len(s) - 1)) ELSE s
\* Series.str.strip(): a null stays null
str_strip(s) == IF s = NullName THEN s ELSE rstrip(lstrip(s))
\* df['Protocol'].str.lower().str.strip()
Protocol_clean(name) == str_strip(str_lower(name))

\* a table of add_category_to_financial_data, and what the function gives back
Table(cols, rows) == [cols |-> cols, rows |-> rows]
Returns(cols, rows) == [exc |-> "none", cols |-> cols, rows |-> rows]
FinancialRow(p, v) == [Protocol |-> p, Revenue_24h |-> v]
MappingRow(p, c) == [Protocol |-> p, Category |-> c]
MergedRow(f, c) == [Protocol |-> f.Protocol, Revenue_24h |-> f.Revenue_24h, Category |-> c]

\* overview_df[['Protocol', 'Category']].drop_duplicates(): the first of equal rows stays
drop_duplicates(rows) ==
    LET kept[i \in 0..Len(rows)] ==
            IF i = 0 THEN << >>
            ELSE IF \E j \in 1..(i - 1) : rows[j] = rows[i] THEN kept[i - 1]
            ELSE Append(kept[i - 1], rows[i])
    IN kept[Len(rows)]

\* financial_clean.merge(category_mapping[['Protocol_clean', 'Category']],
\*                       on='Protocol_clean', how='left')
\* in the order of the left rows: one row per right row with the same Protocol_clean
\* (null keys match each other in a pandas merge), or one row with a null Category
\* when there is none
RECURSIVE merge_left(_, _)
merge_left(financial_clean, category_mapping) ==
    IF financial_clean = << >> THEN << >>
    ELSE LET f == Head(financial_clean)
             found == SelectSeq(category_mapping,
                        LAMBDA m : Protocol_clean(m.Protocol) = Protocol_clean(f.Protocol))
             joined == IF found = << >> THEN <<MergedRow(f, NullCat)>>
                       ELSE [i \in 1..Len(found) |-> MergedRow(f, found[i].Category)]
         IN joined \o merge_left(Tail(financial_clean), category_mapping)

\* merged['Category'].fillna('Other')
fillna(rows) ==
    [i \in 1..Len(rows) |->
        IF rows[i].Category = NullCat THEN [rows[i] EXCEPT !.Category = "Other"] ELSE rows[i]]

\* add_category_to_financial_data (app.py 110-133), by value
add_category(financial, overview) ==
    IF financial.rows = << >> \/ overview.rows = << >>
    THEN Returns(financial.cols, financial.rows)
    ELSE LET category_mapping == drop_duplicates(overview.rows)
         IN Returns(financial.cols \cup {"Category"},
                    fillna(merge_left(financial.rows, category_mapping)))

\* ------------------------------------------------- state of one run of the script
VARIABLES
    metadata_exists,     \* os.path.exists(metadata_file)
    has_last_updated,    \* 'last_updated' is a key of the metadata
    defect,              \* the state of the dataset files
    overview_file,       \* the table stored under tab1_overview
    pc,                  \* where the script is
    loaded,              \* keys of the datasets dict
    tab1_overview, tab2_revenue, tab2_fees, tab3_metrics, tab4_distribution,
    category_analysis, financial_rankings, summary_stats, raw_token_holders,
    selected_categories, tvl_range, top_n,      \* sidebar widgets
    concentration_filter,                       \* the selectbox of Tab 4
    header,              \* the time shown after "Last Updated:"
    filtered_overview,   \* Tab 1's derived table
    kpi,                 \* the Overview KPI cards rendered so far
    messages,            \* st.error / st.warning calls
    rendered,            \* tabs (and footer) rendered to their end
    exception,           \* the uncaught exception that ended the run
    now,                 \* datetime.now(), in seconds
    render_no,           \* how many times the script has been started
    snapshot,            \* what an earlier run of the session displayed
    f_df, f_categories, f_tvl_range, f_top_n, f_result, f_pc,
    f_evaluated,         \* the predicates whose try block was entered
    f_again,             \* apply_filters on the table the call returned
    c_pc,                \* which display block is modelled, and whether it ran
    amount, formatted,   \* format_currency: argument and return value
    metrics, max_pf_ratio, max_pr_ratio, metric_cards,     \* Tab 3 KPI block
    distribution, gini_range, distribution_kpis, distribution_cards, \* Tab 4
    m_pc,                \* add_category_to_financial_data: not called, called, returned
    financial_df, overview_df,   \* its arguments
    merged               \* what it returned or raised

disk == <<metadata_exists, has_last_updated, defect, overview_file>>
globals == <<tab1_overview, tab2_revenue, tab2_fees, tab3_metrics, tab4_distribution,
             category_analysis, financial_rankings, summary_stats, raw_token_holders>>
widgets == <<selected_categories, tvl_range, top_n, concentration_filter>>
fvars == <<f_df, f_categories, f_tvl_range, f_top_n, f_result, f_pc, f_evaluated, f_again>>
session == <<now, render_no, snapshot>>
cvars == <<c_pc, amount, formatted, metrics, max_pf_ratio, max_pr_ratio, metric_cards,
           distribution, gini_range, distribution_kpis, distribution_cards>>
rvars == <<disk, pc, loaded, globals, widgets, header, filtered_overview, kpi, messages,
           rendered, exception, session>>
mvars == <<m_pc, financial_df, overview_df, merged>>
vars == <<rvars, fvars, cvars, mvars>>

\* st.markdown(f"**Last Updated:** ..."): not shown yet, or the time shown
NoHeader == [shown |-> FALSE, time |-> 0]
Header(t) == [shown |-> TRUE, time |-> t]
\* metadata['last_updated'] as the pipeline wrote it: before every render
StoredLastUpdated == [time |-> 0]

NoKpi == [shown |-> {}, total_protocols |-> 0, total_tvl |-> 0, total_mcap |-> 0,
          top_category |-> ""]

\* The variables of the run before it starts.
ScriptIdle ==
    /\ pc = "start"
    /\ loaded = {}
    /\ tab1_overview = EmptyFrame
    /\ tab2_revenue = EmptyShape /\ tab2_fees = EmptyShape
    /\ tab3_metrics = EmptyShape /\ tab4_distribution = EmptyShape
    /\ category_analysis = EmptyShape
    /\ financial_rankings = Dict({})
    /\ raw_token_holders = Dict({})
    /\ selected_categories = {} /\ tvl_range = UndefinedRange /\ top_n = NoneN
    /\ concentration_filter = "unbound"
    /\ header = NoHeader
    /\ filtered_overview = NoneFrame
    /\ kpi = NoKpi
    /\ messages = {}
    /\ rendered = {}
    /\ exception = "none"
RenderIdle == ScriptIdle /\ summary_stats = Dict({})

\* The first run of a session; nothing displayed earlier is remembered.
NoSnapshot == [taken |-> FALSE, selected_categories |-> {}, tvl_range |-> UndefinedRange,
               top_n |-> NoneN, concentration_filter |-> "unbound", pc |-> "start",
               header |-> NoHeader, filtered_overview |-> NoneFrame, kpi |-> NoKpi,
               rendered |-> {}, exception |-> "none"]
SessionIdle == now = 1 /\ render_no = 1 /\ snapshot = NoSnapshot

\* The variables of a call of apply_filters when none is being modelled.
FilterIdle ==
    /\ f_df = NoneFrame /\ f_categories = NoneArg /\ f_tvl_range = NoneRange
    /\ f_top_n = NoneN /\ f_result = Ok(NoneFrame) /\ f_pc = "idle"
    /\ f_evaluated = {} /\ f_again = Ok(NoneFrame)

\* The KPI cards of Tab 3 and of Tab 4 before they are rendered.
NoMetricCards == [shown |-> FALSE, avg_pf |-> PyNone, avg_pr |-> PyNone,
                  pf_text |-> Literal(""), pr_text |-> Literal(""),
                  top_revenue_protocol |-> <<>>]
NoDistributionCards == [shown |-> FALSE, tokens_count |-> 0,
                        avg_gini |-> PyNone, avg_top10 |-> PyNone,
                        gini_text |-> Literal(""), top10_text |-> Literal("")]
\* summary_stats['distribution'] without the two averages
NoDistributionKpis == [tokens_analyzed |-> 7, avg_gini_coefficient |-> PyNone,
                       avg_top_10_share |-> PyNone]

\* The variables of the display blocks when none is being modelled.
CardIdle ==
    /\ c_pc = "idle"
    /\ amount = AmountNone /\ formatted = Literal("")
    /\ metrics = <<>> /\ max_pf_ratio = 50 /\ max_pr_ratio = 50
    /\ metric_cards = NoMetricCards
    /\ distribution = <<>> /\ gini_range = <<NaN, NaN>>
    /\ distribution_kpis = NoDistributionKpis
    /\ distribution_cards = NoDistributionCards

\* The variables of add_category_to_financial_data when it is not modelled by value.
MergeIdle ==
    /\ m_pc = "idle"
    /\ financial_df = Table({}, << >>) /\ overview_df = Table({}, << >>)
    /\ merged = Returns({}, << >>)

\* A run ends by an uncaught exception in the step it was in.
Crash(e) == /\ exception' = e
            /\ pc' = "crashed"

\* ------------------------------------------------- app.py 139-151
CheckMetadata_NoStop ==
    /\ pc = "start"
    /\ IF ~metadata_exists
       THEN messages' = messages \cup {<<"error", "Metadata file not found">>}
       ELSE UNCHANGED messages
    /\ pc' = "load"
    /\ UNCHANGED <<disk, session, header, loaded, globals, widgets, filtered_overview, kpi, rendered,
                   exception, fvars, cvars, mvars>>
CheckMetadata ==
    /\ pc = "start"
    /\ IF ~metadata_exists
       THEN /\ messages' = messages \cup {<<"error", "Metadata file not found">>}
            /\ pc' = "stopped"
       ELSE /\ UNCHANGED messages
            /\ pc' = "load"
    /\ UNCHANGED <<disk, session, header, loaded, globals, widgets, filtered_overview, kpi, rendered,
                   exception, fvars, cvars, mvars>>

\* ------------------------------------------------- app.py 153-187
\* What the loop binds to a key whose file is missing or cannot be read.
MissingValue(key) == IF key \in {"financial_rankings", "raw_token_holders"}
                     THEN Dict({}) ELSE EmptyShape
\* joblib.load of a table file kept by its shape
LoadShape(key) == IF FileExists(defect, key) /\ Loads(defect, key)
                  THEN Shape(FileCols(defect, key), FALSE)
                  ELSE MissingValue(key)
\* last_updated (app.py 154-157): the stored time, or the current time
last_updated(stored, clock) == IF stored THEN StoredLastUpdated.time ELSE clock

LoadDatasets ==
    /\ pc = "load"
    /\ loaded' = DataKeys
    /\ messages' = messages
          \cup (IF has_last_updated THEN {} ELSE {<<"warning", "last_updated">>})
          \cup {<<"warning", k>> : k \in {x \in DataKeys : ~FileExists(defect, x)}}
          \cup {<<"error", k>> : k \in {x \in DataKeys : ~Loads(defect, x)}}
    /\ tab1_overview' = IF FileExists(defect, "tab1_overview") /\ Loads(defect, "tab1_overview")
                        THEN overview_file
                        ELSE EmptyFrame
    /\ tab2_revenue' = LoadShape("tab2_revenue")
    /\ tab2_fees' = LoadShape("tab2_fees")
    /\ tab3_metrics' = LoadShape("tab3_metrics")
    /\ tab4_distribution' = LoadShape("tab4_distribution")
    /\ category_analysis' = LoadShape("category_analysis")
    /\ financial_rankings' = IF FileExists(defect, "financial_rankings")
                                 /\ Loads(defect, "financial_rankings")
                             THEN Dict({"top_revenue", "top_fees"})
                             ELSE MissingValue("financial_rankings")
    /\ summary_stats' = IF FileExists(defect, "summary_stats") /\ Loads(defect, "summary_stats")
                        THEN Dict(SummaryKeys)
                        ELSE MissingValue("summary_stats")
    /\ raw_token_holders' = IF FileExists(defect, "raw_token_holders")
                                /\ Loads(defect, "raw_token_holders")
                            THEN Dict({"JUP"})
                            ELSE MissingValue("raw_token_holders")
    /\ header' = Header(last_updated(has_last_updated, now))
    /\ pc' = "sidebar"
    /\ UNCHANGED <<disk, session, widgets, filtered_overview, kpi, rendered, exception,
                   fvars, cvars, mvars>>

\* ------------------------------------------------- app.py 192-222
\* the categories in sorted order
CategoryOrder == <<"DEX", "Lending">>
\* sorted(tab1_overview['Category'].dropna().unique().tolist())
available_categories(df) ==
    IF ~IsEmpty(df) /\ "Category" \in df.cols
    THEN {df.rows[i].Category : i \in DOMAIN df.rows} \ {NullCat}
    ELSE {}

\* The (min, max) pairs the TVL slider can return: any sub-range of the
\* column's extent; the extent of a column of missing values is (NaN, NaN).
SliderValues(df) ==
    LET vals == {df.rows[i].TVL_USD : i \in DOMAIN df.rows} \ {NaN}
    IN IF vals = {} THEN {<<NaN, NaN>>}
       ELSE LET min_tvl == CHOOSE v \in vals : \A w \in vals : v <= w
                max_tvl == CHOOSE v \in vals : \A w \in vals : v >= w
            IN {<<lo, hi>> : lo \in min_tvl..max_tvl, hi \in min_tvl..max_tvl} \cap
               {t \in Int \X Int : t[1] <= t[2]}

\* default=available_categories[:5] if len(available_categories) > 5 else
\* available_categories: the first five in sorted order, or all of them
DefaultCategories(df) ==
    LET avail == available_categories(df)
        index(c) == CHOOSE i \in DOMAIN CategoryOrder : CategoryOrder[i] = c
    IN IF Cardinality(avail) > 5
       THEN {c \in avail : Cardinality({d \in avail : index(d) < index(c)}) < 5}
       ELSE avail
\* value=(min_tvl, max_tvl)
DefaultRange(df) ==
    LET vals == {df.rows[i].TVL_USD : i \in DOMAIN df.rows} \ {NaN}
    IN IF vals = {} THEN <<NaN, NaN>>
       ELSE <<CHOOSE v \in vals : \A w \in vals : v <= w,
              CHOOSE v \in vals : \A w \in vals : v >= w>>

\* top_n_options: "All" and the smallest number offered; 10, 20, 50 and 100
\* act as 5 does on a table of fewer than five rows.
TopNChoices == {StrN("All"), IntN(5)}

Sidebar ==
    /\ pc = "sidebar"
    /\ selected_categories' \in SUBSET available_categories(tab1_overview)
    /\ IF ~IsEmpty(tab1_overview) /\ "TVL_USD" \in tab1_overview.cols
       THEN \E t \in SliderValues(tab1_overview) : tvl_range' = TupleRange(t)
       ELSE UNCHANGED tvl_range
    /\ top_n' \in TopNChoices
    /\ pc' = "tab0"
    /\ UNCHANGED concentration_filter
    /\ UNCHANGED <<disk, session, header, loaded, globals, filtered_overview, kpi, messages, rendered,
                   exception, fvars, cvars, mvars>>

\* ------------------------------------------------- app.py 264-286
RenderHome ==
    /\ pc = "tab0"
    /\ rendered' = rendered \cup {"Home"}
    /\ pc' = "tab1"
    /\ UNCHANGED <<disk, session, header, loaded, globals, widgets, filtered_overview, kpi, messages,
                   exception, fvars, cvars, mvars>>

\* ------------------------------------------------- app.py 288-373
\* Series.sum(): missing values are skipped
SumTVL(rows) ==
    SumSeq([i \in DOMAIN rows |-> IF rows[i].TVL_USD = NaN THEN 0 ELSE rows[i].TVL_USD])
SumMarketCap(rows) ==
    SumSeq([i \in DOMAIN rows |->
              IF rows[i].Market_Cap_USD = NaN THEN 0 ELSE rows[i].Market_Cap_USD])

\* groupby('Category')['TVL_USD'].sum(): one group per category that occurs,
\* rows without a category dropped, groups in sorted order.
GroupLabels(rows) == {rows[i].Category : i \in DOMAIN rows} \ {NullCat}
GroupSum(rows, c) ==
    SumTVL(SelectSeq(rows, LAMBDA r : r.Category = c))
\* .idxmax(): the first label, in group order, of the largest sum
IdxMax(rows) ==
    LET labels == GroupLabels(rows)
        k == CHOOSE i \in DOMAIN CategoryOrder :
                /\ CategoryOrder[i] \in labels
                /\ \A c \in labels : GroupSum(rows, CategoryOrder[i]) >= GroupSum(rows, c)
                /\ \A j \in 1..(i - 1) :
                     CategoryOrder[j] \in labels =>
                        GroupSum(rows, CategoryOrder[j]) < GroupSum(rows, CategoryOrder[i])
    IN CategoryOrder[k]

\* The four KPI cards (app.py 301-334), rendered in order until one raises:
\* the cards shown, their values, and the exception if any.
OverviewKpis(fo) ==
    LET some == ~IsEmpty(fo)
        c1 == [NoKpi EXCEPT !.shown = {"Total Protocols"},
                            !.total_protocols = IF some THEN Len(fo.rows)
                                                ELSE SummaryOverview.total_protocols]
        c2 == [c1 EXCEPT !.shown = @ \cup {"Total TVL"},
                         !.total_tvl = IF some THEN SumTVL(fo.rows)
                                       ELSE SummaryOverview.total_tvl]
        c3 == [c2 EXCEPT !.shown = @ \cup {"Total Market Cap"},
                         !.total_mcap = IF some
                                        THEN SumMarketCap(fo.rows)
                                        ELSE SummaryOverview.total_market_cap]
        c4 == [c3 EXCEPT !.shown = @ \cup {"Top Category"},
                         !.top_category = IF some THEN IdxMax(fo.rows)
                                          ELSE SummaryOverview.top_category]
    IN IF some /\ "TVL_USD" \notin fo.cols THEN [exc |-> "KeyError", kpi |-> c1]
       ELSE IF some /\ "Market_Cap_USD" \notin fo.cols THEN [exc |-> "KeyError", kpi |-> c2]
       ELSE IF some /\ "Category" \notin fo.cols THEN [exc |-> "KeyError", kpi |-> c3]
       ELSE IF some /\ GroupLabels(fo.rows) = {} THEN [exc |-> "ValueError", kpi |-> c3]
       ELSE [exc |-> "none", kpi |-> c4]

\* The table and charts under the cards (app.py 336-373).
OverviewDisplayException(fo) ==
    IF IsEmpty(fo) THEN "none"
    ELSE IF "TVL_USD" \notin fo.cols THEN "KeyError"
    ELSE IF {"Protocol", "Category"} \ fo.cols # {} THEN "ValueError"
    ELSE "none"

RenderTab1 ==
    /\ pc = "tab1"
    /\ IF ~IsEmpty(tab1_overview) /\ tvl_range.kind = "undefined"
       THEN \* tvl_range was never bound
            /\ Crash("NameError")
            /\ UNCHANGED <<filtered_overview, kpi, rendered>>
       ELSE LET r == apply_filters(tab1_overview, ListArg(selected_categories),
                                   IF ~IsEmpty(tab1_overview) THEN tvl_range ELSE NoneRange,
                                   top_n)
                cards == IF HasKey(summary_stats, "overview") THEN OverviewKpis(r.df)
                         ELSE [exc |-> "none", kpi |-> NoKpi]
                shown == OverviewDisplayException(r.df)
            IN IF r.exc # "none"
               THEN Crash(r.exc) /\ UNCHANGED <<filtered_overview, kpi, rendered>>
               ELSE /\ filtered_overview' = r.df
                    /\ kpi' = cards.kpi
                    /\ IF cards.exc # "none" THEN Crash(cards.exc) /\ UNCHANGED rendered
                       ELSE IF shown # "none" THEN Crash(shown) /\ UNCHANGED rendered
                       ELSE /\ rendered' = rendered \cup {"Overview"}
                            /\ pc' = "tab2"
                            /\ UNCHANGED exception
    /\ UNCHANGED <<disk, session, header, loaded, globals, widgets, messages, fvars, cvars, mvars>>

\* ------------------------------------------------- app.py 375-545
\* add_category_to_financial_data (app.py 110-133), by shape
AddCategoryRaises(financial, overview) ==
    /\ ~ShapeEmpty(financial) /\ ~IsEmpty(overview)
    /\ ({"Protocol", "Category"} \ overview.cols # {} \/ "Protocol" \notin financial.cols)
add_category_to_financial_data(financial, overview) ==
    IF ShapeEmpty(financial) \/ IsEmpty(overview) THEN financial
    ELSE Shape(financial.cols \cup {"Category"}, FALSE)

\* financial_rankings.get(key, pd.DataFrame())
RankingTable(rankings, key) ==
    IF HasKey(rankings, key) THEN Shape(FullCols(key), FALSE) ELSE EmptyShape

\* Every failure of the tab is a column label that is not there.
Tab2Raises ==
    LET rev == tab2_revenue
        fees == tab2_fees
        rev_cat == add_category_to_financial_data(rev, tab1_overview)
        fees_cat == add_category_to_financial_data(fees, tab1_overview)
        top_revenue == RankingTable(financial_rankings, "top_revenue")
        top_fees == RankingTable(financial_rankings, "top_fees")
    IN \/ AddCategoryRaises(rev, tab1_overview)
       \/ AddCategoryRaises(fees, tab1_overview)
       \* KPIs, 384-418
       \/ /\ HasKey(summary_stats, "financial")
          /\ \/ ~ShapeEmpty(rev) /\ "Revenue_24h" \notin rev.cols
             \/ ~ShapeEmpty(fees) /\ "Fees_24h" \notin fees.cols
       \* pies, 424-470
       \/ ~ShapeEmpty(rev_cat) /\ "Category" \in rev_cat.cols /\ "Revenue_24h" \notin rev_cat.cols
       \/ ~ShapeEmpty(fees_cat) /\ "Category" \in fees_cat.cols /\ "Fees_24h" \notin fees_cat.cols
       \* rankings and full tables, 475-526
       \/ ~ShapeEmpty(top_revenue) /\ "Revenue_24h" \in top_revenue.cols
            /\ "Protocol" \notin top_revenue.cols
       \/ ~ShapeEmpty(rev) /\ FullCols("tab2_revenue") \ rev.cols # {}
       \/ ~ShapeEmpty(top_fees) /\ "Fees_24h" \in top_fees.cols
            /\ "Protocol" \notin top_fees.cols
       \/ ~ShapeEmpty(fees) /\ FullCols("tab2_fees") \ fees.cols # {}
       \* ratio table, 540: indexed whether or not top_revenue has the columns
       \/ {"Protocol", "Fees_Revenue_Ratio_24h"} \ top_revenue.cols # {}

RenderTab2 ==
    /\ pc = "tab2"
    /\ IF Tab2Raises THEN Crash("KeyError") /\ UNCHANGED rendered
       ELSE /\ rendered' = rendered \cup {"Revenue & Fees"}
            /\ pc' = "tab3"
            /\ UNCHANGED exception
    /\ UNCHANGED <<disk, session, header, loaded, globals, widgets, filtered_overview, kpi, messages, fvars, cvars, mvars>>

\* ------------------------------------------------- app.py 569-657
Tab3Raises ==
    \/ ~ShapeEmpty(tab3_metrics) /\ {"PF_Ratio", "PR_Ratio"} \ tab3_metrics.cols # {}
    \/ /\ HasKey(summary_stats, "financial") /\ ~ShapeEmpty(tab3_metrics)
       /\ {"PF_Ratio", "PR_Ratio", "Revenue_24h", "Protocol"} \ tab3_metrics.cols # {}

RenderTab3 ==
    /\ pc = "tab3"
    /\ IF Tab3Raises THEN Crash("KeyError") /\ UNCHANGED rendered
       ELSE /\ rendered' = rendered \cup {"Metrics"}
            /\ pc' = "tab4"
            /\ UNCHANGED exception
    /\ UNCHANGED <<disk, session, header, loaded, globals, widgets, filtered_overview, kpi, messages, fvars, cvars, mvars>>

\* ------------------------------------------------- app.py 659-832
\* The options of the concentration selectbox that differ on the tables of
\* the model: no share of the model lies in a bin above the first, so the
\* three higher levels select no row, as "Low" does on a table of zero shares.
ConcentrationLevels == {"All", "Low (0-25%)"}

\* filtered_distribution = tab4_distribution.copy(), and the column that
\* line 689 writes into the copy
DistributionCopy(table, level) ==
    IF ~ShapeEmpty(table) /\ level # "All"
    THEN Shape(table.cols \cup {"concentration_level"}, FALSE)
    ELSE table

Tab4Raises(level) ==
    /\ ~ShapeEmpty(tab4_distribution)
    /\ \/ level # "All" /\ "top_10_holders_share" \notin tab4_distribution.cols
       \/ /\ HasKey(summary_stats, "distribution")
          /\ {"gini_coefficient", "top_10_holders_share"} \ tab4_distribution.cols # {}
       \/ /\ "gini_coefficient" \in tab4_distribution.cols
          /\ "protocol_name" \notin tab4_distribution.cols

\* The tab with line 686 taking no copy: the new column lands in the loaded table.
RenderTab4_InPlace ==
    /\ pc = "tab4"
    /\ \E level \in ConcentrationLevels :
          /\ concentration_filter' = IF ShapeEmpty(tab4_distribution) THEN concentration_filter
                                     ELSE level
          /\ tab4_distribution' = DistributionCopy(tab4_distribution, level)
          /\ IF Tab4Raises(level) THEN Crash("KeyError") /\ UNCHANGED rendered
             ELSE /\ rendered' = rendered \cup {"Token Distribution"}
                  /\ pc' = "footer"
                  /\ UNCHANGED exception
    /\ UNCHANGED <<disk, session, header, loaded, tab1_overview, tab2_revenue, tab2_fees,
                   tab3_metrics, category_analysis, financial_rankings, summary_stats,
                   raw_token_holders, selected_categories, tvl_range, top_n,
                   filtered_overview, kpi, messages, fvars, cvars, mvars>>
RenderTab4 ==
    /\ pc = "tab4"
    /\ \E level \in ConcentrationLevels :
          /\ concentration_filter' = IF ShapeEmpty(tab4_distribution) THEN concentration_filter
                                     ELSE level
          /\ IF Tab4Raises(level) THEN Crash("KeyError") /\ UNCHANGED rendered
             ELSE /\ rendered' = rendered \cup {"Token Distribution"}
                  /\ pc' = "footer"
                  /\ UNCHANGED exception
    /\ UNCHANGED <<disk, session, header, loaded, globals, selected_categories, tvl_range, top_n,
                   filtered_overview, kpi, messages, fvars, cvars, mvars>>

\* ------------------------------------------------- app.py 834-857
RenderFooter ==
    /\ pc = "footer"
    /\ rendered' = rendered \cup {"footer"}
    /\ pc' = "done"
    /\ UNCHANGED <<disk, session, header, loaded, globals, widgets, filtered_overview, kpi, messages,
                   exception, fvars, cvars, mvars>>

\* ------------------------------------------------- the script
\* the stored overview table; nothing is read from a file that is missing
\* or unreadable
OverviewFiles(d) ==
    IF FileExists(d, "tab1_overview") /\ Loads(d, "tab1_overview")
    THEN FramesWith(FileCols(d, "tab1_overview"), "float64", MaxOverviewRows)
    ELSE {EmptyFrame}

\* One run, on metadata that carries last_updated; the fallback of line 157
\* is followed in SessionSpec, where the clock moves.
Init ==
    /\ metadata_exists \in BOOLEAN
    /\ has_last_updated = TRUE
    /\ defect \in Defects
    /\ overview_file \in OverviewFiles(defect)
    /\ RenderIdle
    /\ SessionIdle
    /\ FilterIdle
    /\ CardIdle
    /\ MergeIdle

Next ==
    \/ CheckMetadata
    \/ LoadDatasets
    \/ Sidebar
    \/ RenderHome
    \/ RenderTab1
    \/ RenderTab2
    \/ RenderTab3
    \/ RenderTab4
    \/ RenderFooter

Spec == Init /\ [][Next]_vars

\* ------------------------------------------------- a session: the script run again
\* What a finished run displayed, with the selections it was made under.
Snapshot == [taken |-> TRUE, selected_categories |-> selected_categories,
             tvl_range |-> tvl_range, top_n |-> top_n,
             concentration_filter |-> concentration_filter, pc |-> pc,
             header |-> header, filtered_overview |-> filtered_overview, kpi |-> kpi,
             rendered |-> rendered, exception |-> exception]

\* Streamlit runs the script again from its first line, in a fresh
\* namespace, after an interaction; the files stay, the clock has moved on.
Rerun ==
    /\ pc \in {"done", "crashed", "stopped"}
    /\ render_no < MaxRenders
    /\ render_no' = render_no + 1
    /\ now' \in now..MaxClock
    /\ snapshot' \in IF snapshot.taken THEN {snapshot, Snapshot} ELSE {Snapshot}
    /\ pc' = "start"
    /\ loaded' = {}
    /\ tab1_overview' = EmptyFrame
    /\ tab2_revenue' = EmptyShape /\ tab2_fees' = EmptyShape
    /\ tab3_metrics' = EmptyShape /\ tab4_distribution' = EmptyShape
    /\ category_analysis' = EmptyShape
    /\ financial_rankings' = Dict({}) /\ summary_stats' = Dict({})
    /\ raw_token_holders' = Dict({})
    /\ selected_categories' = {} /\ tvl_range' = UndefinedRange /\ top_n' = NoneN
    /\ concentration_filter' = "unbound"
    /\ header' = NoHeader
    /\ filtered_overview' = NoneFrame
    /\ kpi' = NoKpi
    /\ messages' = {}
    /\ rendered' = {}
    /\ exception' = "none"
    /\ UNCHANGED <<disk, fvars, cvars, mvars>>

SessionInit ==
    /\ metadata_exists \in BOOLEAN
    /\ has_last_updated \in BOOLEAN
    /\ defect \in {NoDefect, MissingFile("financial_rankings")}
    /\ overview_file \in FramesWith(ColNames, "float64", MaxSessionRows)
    /\ RenderIdle
    /\ SessionIdle
    /\ FilterIdle
    /\ CardIdle
    /\ MergeIdle

SessionNext == Next \/ Rerun

SessionSpec == SessionInit /\ [][SessionNext]_vars

\* ------------------------------------------------- the call, as a state machine
FilterColSets == {{"Protocol", "Market_Cap_USD"} \cup s : s \in SUBSET {"Category", "TVL_USD"}}
FilterTables ==
    {NoneFrame}
    \cup UNION {FramesWith(cols, "float64", MaxRows) : cols \in FilterColSets}
    \cup UNION {FramesWith(cols, "object", MaxRows) :
                cols \in {c \in FilterColSets : "TVL_USD" \in c}}
CategoryArgs == {NoneArg, StrArg} \cup {ListArg(S) : S \in SUBSET Categories}
\* tuples that do not unpack into two names, and every pair of values
BadTuples == {<<>>, <<1>>, <<1, 1, 1>>}
RangeArgs == {NoneRange, StrsRange} \cup {TupleRange(t) : t \in BadTuples}
             \cup {TupleRange(<<lo, hi>>) : lo \in 1..MaxTVL, hi \in 1..MaxTVL}
TopNArgs == {NoneN, StrN("All"), StrN("abc")} \cup {IntN(n) : n \in (-1)..MaxN}

FilterInit ==
    /\ f_df \in FilterTables
    /\ f_categories \in CategoryArgs
    /\ f_tvl_range \in RangeArgs
    /\ f_top_n \in TopNArgs
    /\ f_result = Ok(NoneFrame)
    /\ f_evaluated = {}
    /\ f_again = Ok(NoneFrame)
    /\ f_pc = "call"
    /\ metadata_exists = TRUE /\ has_last_updated = TRUE
    /\ defect = NoDefect /\ overview_file = EmptyFrame
    /\ RenderIdle
    /\ SessionIdle
    /\ CardIdle
    /\ MergeIdle

\* The try blocks a call enters (app.py 227, 233, 240, 251): none when the
\* table is None or empty; an exception inside a block is caught, so the
\* blocks after it are still reached.
PredicatesEvaluated_NoEarlyReturn(df, categories, range, n) ==
    {b \in {"category"} : TruthyCategories(categories) /\ "Category" \in df.cols}
    \cup {b \in {"range"} : TruthyRange(range) /\ "TVL_USD" \in df.cols}
    \cup {b \in {"top_n"} : /\ TruthyN(n) /\ ~(n.kind = "str" /\ n.s = "All")
                            /\ "TVL_USD" \in df.cols}
PredicatesEvaluated(df, categories, range, n) ==
    IF df.kind = "None" \/ IsEmpty(df) THEN {}
    ELSE {b \in {"category"} : TruthyCategories(categories) /\ "Category" \in df.cols}
         \cup {b \in {"range"} : TruthyRange(range) /\ "TVL_USD" \in df.cols}
         \cup {b \in {"top_n"} : /\ TruthyN(n) /\ ~(n.kind = "str" /\ n.s = "All")
                                 /\ "TVL_USD" \in df.cols}

ApplyFilters ==
    /\ f_pc = "call"
    /\ f_result' = apply_filters(f_df, f_categories, f_tvl_range, f_top_n)
    /\ f_evaluated' = PredicatesEvaluated(f_df, f_categories, f_tvl_range, f_top_n)
    /\ f_pc' = "returned"
    /\ UNCHANGED <<f_df, f_categories, f_tvl_range, f_top_n, f_again, rvars, cvars, mvars>>

\* A second call, with the same arguments, on the table the first returned.
ApplyFiltersAgain ==
    /\ f_pc = "returned"
    /\ f_again' = apply_filters(f_result.df, f_categories, f_tvl_range, f_top_n)
    /\ f_pc' = "returned twice"
    /\ UNCHANGED <<f_df, f_categories, f_tvl_range, f_top_n, f_result, f_evaluated,
                   rvars, cvars, mvars>>

FilterNext == ApplyFilters \/ ApplyFiltersAgain

FilterSpec == FilterInit /\ [][FilterNext]_vars

\* ================================================= the display blocks, one at a time
\* ------------------------------------------------- app.py 573-618
MetricRow(p, pf, pr, rev) == [Protocol |-> p, PF_Ratio |-> pf, PR_Ratio |-> pr,
                              Revenue_24h |-> rev]
Column(rows, name) == [i \in DOMAIN rows |-> rows[i][name]]

\* tab3_metrics[(PF_Ratio <= max_pf_ratio) & (PR_Ratio <= max_pr_ratio)]
filtered_metrics(rows, max_pf, max_pr) ==
    SelectSeq(rows, LAMBDA r : Le(r.PF_Ratio, max_pf) /\ Le(r.PR_Ratio, max_pr))

\* .loc[Revenue_24h.idxmax(), 'Protocol'] if Revenue_24h.max() > 0 else 'N/A':
\* <<>> stands for 'N/A'
TopRevenueProtocol(rows) ==
    LET vals == Present(Column(rows, "Revenue_24h"))
        top == KthSmallest(vals, Len(vals))
    IN IF vals = <<>> \/ top <= 0 THEN <<>>
       ELSE LET k == CHOOSE i \in DOMAIN rows :
                       /\ rows[i].Revenue_24h = top
                       /\ \A j \in 1..(i - 1) : rows[j].Revenue_24h # top
            IN <<rows[k].Protocol>>

\* f"{avg:.2f}" if avg and not pd.isna(avg) else "N/A"
MedianCard(avg) == IF Truthy(avg) /\ ~IsNa(avg) THEN FormatFixed(avg, 2, "") ELSE Literal("N/A")

MetricsKpis ==
    /\ c_pc = "tab3"
    /\ LET shown == IF metrics = <<>> THEN metrics
                    ELSE filtered_metrics(metrics, max_pf_ratio, max_pr_ratio)
           avg_pf == Median(Column(shown, "PF_Ratio"))
           avg_pr == Median(Column(shown, "PR_Ratio"))
       IN metric_cards' =
            IF HasKey(summary_stats, "financial") /\ shown # <<>>
            THEN [shown |-> TRUE, avg_pf |-> avg_pf, avg_pr |-> avg_pr,
                  pf_text |-> MedianCard(avg_pf), pr_text |-> MedianCard(avg_pr),
                  top_revenue_protocol |-> TopRevenueProtocol(shown)]
            ELSE NoMetricCards
    /\ c_pc' = "rendered tab3"
    /\ UNCHANGED <<amount, formatted, metrics, max_pf_ratio, max_pr_ratio, distribution,
                   gini_range, distribution_kpis, distribution_cards, rvars, fvars, mvars>>

\* ------------------------------------------------- app.py 666-731
DistributionRow(p, gini, share) == [protocol_name |-> p, gini_coefficient |-> gini,
                                    top_10_holders_share |-> share]

\* The (min, max) pairs the Gini slider can return: any sub-range of the
\* column's extent; the extent of a column of missing values is (NaN, NaN).
GiniSliderValues(rows) ==
    LET vals == Present(Column(rows, "gini_coefficient"))
    IN IF vals = <<>> THEN {<<NaN, NaN>>}
       ELSE LET min_gini == KthSmallest(vals, 1)
                max_gini == KthSmallest(vals, Len(vals))
            IN {<<lo, hi>> : lo \in min_gini..max_gini, hi \in min_gini..max_gini} \cap
               {t \in Int \X Int : t[1] <= t[2]}

\* pd.cut(top_10_holders_share, bins=[0, 25, 50, 75, 100], labels=...): the
\* bins are open on the left, so 0 and a missing share get no level.
concentration_level(share) ==
    IF share = NaN \/ share <= 0 \/ share > 100 THEN NullCat
    ELSE IF share <= 25 THEN "Low (0-25%)"
    ELSE IF share <= 50 THEN "Medium (25-50%)"
    ELSE IF share <= 75 THEN "High (50-75%)"
    ELSE "Very High (75-100%)"

filtered_distribution(rows, level, range) ==
    LET by_level == IF level = "All" THEN rows
                    ELSE SelectSeq(rows,
                            LAMBDA r : concentration_level(r.top_10_holders_share) = level)
    IN SelectSeq(by_level, LAMBDA r : /\ Ge(r.gini_coefficient, range[1])
                                      /\ Le(r.gini_coefficient, range[2]))

\* f"{avg:.3f}" if avg else "N/A", and the same with one decimal and "%"
AverageCard(avg, decimals, suffix) ==
    IF Truthy(avg) THEN FormatFixed(avg, decimals, suffix) ELSE Literal("N/A")

DistributionKpis ==
    /\ c_pc = "tab4"
    /\ IF distribution = <<>>
       THEN UNCHANGED <<concentration_filter, gini_range>>
       ELSE /\ concentration_filter' \in ConcentrationLevels
            /\ gini_range' \in GiniSliderValues(distribution)
    /\ LET shown == IF distribution = <<>> THEN distribution
                    ELSE filtered_distribution(distribution, concentration_filter', gini_range')
           kpis == distribution_kpis
           avg_gini == IF shown # <<>> THEN Mean(Column(shown, "gini_coefficient"))
                       ELSE kpis.avg_gini_coefficient
           avg_top10 == IF shown # <<>> THEN Mean(Column(shown, "top_10_holders_share"))
                        ELSE kpis.avg_top_10_share
       IN distribution_cards' =
            IF HasKey(summary_stats, "distribution")
            THEN [shown |-> TRUE,
                  tokens_count |-> IF shown # <<>> THEN Len(shown) ELSE kpis.tokens_analyzed,
                  avg_gini |-> avg_gini, avg_top10 |-> avg_top10,
                  gini_text |-> AverageCard(avg_gini, 3, ""),
                  top10_text |-> AverageCard(avg_top10, 1, "%")]
            ELSE NoDistributionCards
    /\ c_pc' = "rendered tab4"
    /\ UNCHANGED <<amount, formatted, metrics, max_pf_ratio, max_pr_ratio, metric_cards,
                   distribution, distribution_kpis, fvars, mvars,
                   disk, pc, loaded, globals, selected_categories, tvl_range, top_n, header,
                   filtered_overview, kpi, messages, rendered, exception, session>>

\* ------------------------------------------------- app.py 88-98
FormatCurrency ==
    /\ c_pc = "format_currency"
    /\ formatted' = format_currency(amount)
    /\ c_pc' = "returned"
    /\ UNCHANGED <<amount, metrics, max_pf_ratio, max_pr_ratio, metric_cards, distribution,
                   gini_range, distribution_kpis, distribution_cards, rvars, fvars, mvars>>

\* ------------------------------------------------- the inputs of the display blocks
\* Mantissas around the bucket limits, the examples of the documentation,
\* and numbers that end in 5 at the digit that is rounded away.
Mantissas == {0, 1, 5, 15, 999, 1000, 1005, 1235, 1500, 2500, 3000, 9995, 9999}
Amounts == {AmountNone, AmountNaN}
           \cup {Num(m, e) : m \in Mantissas, e \in (-3)..MaxExp}
           \cup {Num(-5, e) : e \in (-3)..0}
\* a ratio, Gini or share cell: zero, a positive number, or missing
RatioCells == {NaN, 0, 1}
MetricTables ==
    UNION {{[i \in 1..n |-> MetricRow(i, f[i][1], f[i][2], f[i][3])] :
              f \in [1..n -> RatioCells \X RatioCells \X {NaN, 0, 1}]} : n \in 0..MaxTokens}
DistributionTables ==
    UNION {{[i \in 1..n |-> DistributionRow(i, f[i][1], f[i][2])] :
              f \in [1..n -> RatioCells \X RatioCells]} : n \in 0..MaxTokens}
\* what summary_stats['distribution'].get(...) can give for an average
KpiValues == {PyNone, PyNaN, PyFloat(1, 1)}
SummaryRecords == {Dict({}), Dict(SummaryKeys), MissingValue("summary_stats")}

CardInit ==
    /\ metadata_exists = TRUE /\ has_last_updated = TRUE
    /\ defect = NoDefect /\ overview_file = EmptyFrame
    /\ ScriptIdle
    /\ SessionIdle
    /\ FilterIdle
    /\ MergeIdle
    /\ formatted = Literal("")
    /\ metric_cards = NoMetricCards
    /\ distribution_cards = NoDistributionCards
    /\ gini_range = <<NaN, NaN>>
    /\ \/ /\ c_pc = "format_currency"
          /\ amount \in Amounts
          /\ summary_stats = Dict({})
          /\ metrics = <<>> /\ max_pf_ratio = 50 /\ max_pr_ratio = 50
          /\ distribution = <<>> /\ distribution_kpis = NoDistributionKpis
       \/ /\ c_pc = "tab3"
          /\ amount = AmountNone
          /\ summary_stats \in SummaryRecords
          /\ metrics \in MetricTables
          /\ max_pf_ratio \in {0, 50} /\ max_pr_ratio \in {0, 50}
          /\ distribution = <<>> /\ distribution_kpis = NoDistributionKpis
       \/ /\ c_pc = "tab4"
          /\ amount = AmountNone
          /\ summary_stats \in SummaryRecords
          /\ metrics = <<>> /\ max_pf_ratio = 50 /\ max_pr_ratio = 50
          /\ distribution \in DistributionTables
          /\ distribution_kpis \in
                IF HasKey(summary_stats, "distribution")
                THEN {[NoDistributionKpis EXCEPT !.avg_gini_coefficient = g,
                                                 !.avg_top_10_share = t] :
                        g \in KpiValues, t \in KpiValues}
                ELSE {NoDistributionKpis}

CardNext == FormatCurrency \/ MetricsKpis \/ DistributionKpis

CardSpec == CardInit /\ [][CardNext]_vars

\* ------------------------------------------------- app.py 110-133, 380-381
\* tab2_revenue_with_category = add_category_to_financial_data(tab2_revenue, tab1_overview)
AddCategory ==
    /\ m_pc = "call"
    /\ merged' = add_category(financial_df, overview_df)
    /\ m_pc' = "returned"
    /\ UNCHANGED <<financial_df, overview_df, rvars, fvars, cvars>>

\* ------------------------------------------------- the inputs of the merge
\* names as the pipeline may write them: differing in case and in surrounding blanks
ProtocolNames == {<<"a">>, <<"A", " ">>, <<" ", "a">>, <<"b">>, NullName}
FinancialTables ==
    {Table({"Protocol", "Revenue_24h"}, [i \in DOMAIN names |-> FinancialRow(names[i], i)]) :
        names \in UNION {[1..k -> ProtocolNames] : k \in 0..MaxFinancialRows}}
OverviewTables ==
    {Table({"Protocol", "Category"}, rows) :
        rows \in UNION {[1..k -> {MappingRow(p, c) : p \in ProtocolNames,
                                                      c \in Categories \cup {NullCat}}] :
                         k \in 0..MaxMappingRows}}

MergeInit ==
    /\ metadata_exists = TRUE /\ has_last_updated = TRUE
    /\ defect = NoDefect /\ overview_file = EmptyFrame
    /\ RenderIdle
    /\ SessionIdle
    /\ FilterIdle
    /\ CardIdle
    /\ m_pc = "call"
    /\ financial_df \in FinancialTables
    /\ overview_df \in OverviewTables
    /\ merged = Returns({}, << >>)

MergeSpec == MergeInit /\ [][AddCategory]_vars

\* ================================================= claims about apply_filters
Returned == f_pc \in {"returned", "returned twice"}
InRows(r, rows) == \E i \in DOMAIN rows : rows[i] = r

\* What each predicate asks of a row, stated without the code: a predicate
\* is in force when its argument is well-formed and its column is there.
CategoryInForce == /\ f_categories.kind = "list" /\ f_categories.items # {}
                   /\ "Category" \in f_df.cols
RangeInForce == /\ f_tvl_range.kind = "tuple" /\ Len(f_tvl_range.items) = 2
                /\ "TVL_USD" \in f_df.cols /\ f_df.tvl_dtype = "float64"
TopNInForce == /\ f_top_n.kind = "int" /\ f_top_n.n > 0
               /\ "TVL_USD" \in f_df.cols /\ f_df.tvl_dtype = "float64"
Qualifies(r) ==
    /\ CategoryInForce => r.Category \in f_categories.items
    /\ RangeInForce => /\ r.TVL_USD # NaN
                       /\ f_tvl_range.items[1] <= r.TVL_USD
                       /\ r.TVL_USD <= f_tvl_range.items[2]
\* T: the rows that the category and range predicates leave, in table order
QualifyingRows == SelectSeq(f_df.rows, Qualifies)
\* a ranks at least as high as b; a missing value ranks below every number
RanksAtLeast(a, b) == b = NaN \/ (a # NaN /\ a >= b)

IllTypedCategories == f_categories.kind = "str"
IllTypedRange == \/ f_tvl_range.kind = "strs"
                 \/ f_tvl_range.kind = "tuple" /\ Len(f_tvl_range.items) # 2
IllTypedTopN == f_top_n.kind = "str" /\ f_top_n.s # "All"

OnlyCategories == /\ Returned /\ f_df.kind = "frame" /\ ~IsEmpty(f_df)
                  /\ f_categories.kind = "list"
                  /\ f_tvl_range.kind = "None" /\ f_top_n.kind = "None"
SelectedRows == SelectSeq(f_df.rows, LAMBDA r : r.Category \in f_categories.items)

\* C5: category predicate, for a non-empty selected set: the result holds
\* exactly the rows whose Category is in the set, in table order; with an
\* empty selected set, or without a Category column, nothing changes.
C5_CategoryPredicate ==
    OnlyCategories =>
        f_result.df.rows = IF "Category" \in f_df.cols /\ f_categories.items # {}
                           THEN SelectedRows ELSE f_df.rows
\* C5 as stated: exactly the selected rows for every selected set
C5_AsStated ==
    OnlyCategories =>
        f_result.df.rows = IF "Category" \in f_df.cols THEN SelectedRows ELSE f_df.rows
C5_Witness ==
    /\ OnlyCategories
    /\ f_categories.items = {"DEX"}
    /\ Len(f_df.rows) = 2
    /\ f_df.rows[1].Category = "Lending" /\ f_df.rows[2].Category = "DEX"
    /\ f_result.df.rows = <<f_df.rows[2]>>

NumericTopN == /\ Returned /\ f_df.kind = "frame"
               /\ f_top_n.kind = "int"
               /\ "TVL_USD" \in f_df.cols /\ f_df.tvl_dtype = "float64"
TopNBound(n) ==
    /\ Len(f_result.df.rows) <= Min(n, Len(QualifyingRows))
    /\ \A i \in DOMAIN QualifyingRows :
          ~InRows(QualifyingRows[i], f_result.df.rows) =>
             \A k \in DOMAIN f_result.df.rows :
                RanksAtLeast(f_result.df.rows[k].TVL_USD, QualifyingRows[i].TVL_USD)

\* C6: top-N predicate, for a positive N and a numeric TVL_USD column: the
\* result has at most min(N, |T|) rows and every row kept ranks at least as
\* high as every row of T left out (a missing TVL_USD ranking lowest); for
\* N <= 0 the predicate does nothing and the result is T.
C6_TopN ==
    NumericTopN =>
        IF f_top_n.n > 0 THEN TopNBound(f_top_n.n)
        ELSE f_result.df.rows = QualifyingRows
\* C6 as stated, for every numeric N (here: every N >= 0)
C6_AsStated == (NumericTopN /\ f_top_n.n >= 0) => TopNBound(f_top_n.n)
C6_Witness ==
    /\ NumericTopN /\ f_top_n.n = 1
    /\ Len(QualifyingRows) = 2
    /\ QualifyingRows[1].TVL_USD = 1 /\ QualifyingRows[2].TVL_USD = 2
    /\ f_result.df.rows = <<QualifyingRows[2]>>

\* C7: ties at the cut-off go to the rows that come first in the table: of
\* two rows of T with the same TVL_USD, the later one is kept only if the
\* earlier one is.
C7_TopNStable ==
    (NumericTopN /\ f_top_n.n > 0) =>
        \A i, j \in DOMAIN QualifyingRows :
            (/\ i < j
             /\ QualifyingRows[i].TVL_USD = QualifyingRows[j].TVL_USD
             /\ InRows(QualifyingRows[j], f_result.df.rows))
            => InRows(QualifyingRows[i], f_result.df.rows)
C7_Witness ==
    /\ NumericTopN /\ f_top_n.n = 1
    /\ Len(QualifyingRows) = 2
    /\ QualifyingRows[1].TVL_USD = 2 /\ QualifyingRows[2].TVL_USD = 2
    /\ f_result.df.rows = <<QualifyingRows[1]>>

\* C8: the predicates compose in the order category, range, top-N: every
\* row returned satisfies the category and the range predicate, and top-N
\* takes its N rows among those, so that min(N, |T|) rows come back.
C8_Composition ==
    (Returned /\ f_df.kind = "frame") =>
        /\ \A k \in DOMAIN f_result.df.rows : InRows(f_result.df.rows[k], QualifyingRows)
        /\ IF TopNInForce
           THEN Len(f_result.df.rows) = Min(f_top_n.n, Len(QualifyingRows))
           ELSE f_result.df.rows = QualifyingRows
\* the larger row is of another category: the one slot goes to the DEX row
C8_Witness ==
    /\ Returned /\ TopNInForce /\ f_top_n.n = 1
    /\ f_categories = ListArg({"DEX"})
    /\ "Category" \in f_df.cols
    /\ Len(f_df.rows) = 2
    /\ f_df.rows[1].Category = "Lending" /\ f_df.rows[1].TVL_USD = 2
    /\ f_df.rows[2].Category = "DEX" /\ f_df.rows[2].TVL_USD = 1
    /\ f_result.df.rows = <<f_df.rows[2]>>

OnlyRange == /\ Returned /\ f_df.kind = "frame" /\ ~IsEmpty(f_df)
             /\ f_df.tvl_dtype = "float64"
             /\ f_tvl_range.kind = "tuple" /\ Len(f_tvl_range.items) = 2
             /\ f_categories.kind = "None" /\ f_top_n.kind = "None"

\* C9: range predicate: the result holds exactly the rows with
\* min <= TVL_USD <= max, both bounds included, in table order; without a
\* TVL_USD column nothing changes.
C9_RangePredicate ==
    OnlyRange =>
        f_result.df.rows =
            IF "TVL_USD" \in f_df.cols
            THEN SelectSeq(f_df.rows,
                    LAMBDA r : /\ r.TVL_USD # NaN
                               /\ f_tvl_range.items[1] <= r.TVL_USD
                               /\ r.TVL_USD <= f_tvl_range.items[2])
            ELSE f_df.rows
\* a row on the upper bound is kept, a row below the lower bound is dropped
C9_Witness ==
    /\ OnlyRange /\ f_tvl_range.items = <<2, 2>>
    /\ Len(f_df.rows) = 2
    /\ f_df.rows[1].TVL_USD = 1 /\ f_df.rows[2].TVL_USD = 2
    /\ f_result.df.rows = <<f_df.rows[2]>>

\* ================================================= claims about a run
Ended == pc \in {"done", "crashed", "stopped"}
DataTabs == {"Overview", "Revenue & Fees", "Metrics", "Token Distribution"}
\* every protocol of the stored overview has a category
EveryProtocolCategorised ==
    \A i \in DOMAIN overview_file.rows : overview_file.rows[i].Category # NullCat

\* C2: with the metadata present and one dataset file absent, the run
\* binds that dataset to an empty value, warns, and renders every tab and
\* the footer without an uncaught exception.
C2_OneMissingDataset ==
    (metadata_exists /\ defect.kind = "missing" /\ EveryProtocolCategorised /\ Ended) =>
        /\ pc = "done"
        /\ exception = "none"
        /\ DataTabs \cup {"footer"} \subseteq rendered
        /\ <<"warning", defect.table>> \in messages

\* C3: without the metadata file the run stops at once with an error shown:
\* no dataset is loaded and no tab is rendered.
C3_MissingMetadataHalts ==
    ~metadata_exists =>
        /\ pc \in {"start", "stopped"}
        /\ loaded = {}
        /\ rendered = {}
        /\ pc = "stopped" => <<"error", "Metadata file not found">> \in messages
C3_Witness ==
    /\ ~metadata_exists /\ pc = "stopped"
    /\ messages = {<<"error", "Metadata file not found">>}

\* C4: a loaded table that lacks one expected column makes the display that
\* needs it unavailable, and the run still ends without an uncaught exception.
C4_MissingColumn ==
    (metadata_exists /\ defect.kind = "gap" /\ EveryProtocolCategorised /\ Ended) =>
        /\ pc = "done"
        /\ exception = "none"
        /\ DataTabs \cup {"footer"} \subseteq rendered

\* C10: the Overview KPI cards show the values computed from the filtered
\* table when it has rows, and the precomputed summary values when it has none.
Tab1Done == "Overview" \in rendered
AllCards == {"Total Protocols", "Total TVL", "Total Market Cap", "Top Category"}
C10_KpiResolution ==
    (Tab1Done /\ defect.kind # "gap" /\ EveryProtocolCategorised) =>
        /\ ~IsEmpty(filtered_overview) =>
              /\ kpi.shown = AllCards
              /\ kpi.total_protocols = Len(filtered_overview.rows)
              /\ kpi.total_tvl = SumTVL(filtered_overview.rows)
        /\ (IsEmpty(filtered_overview) /\ HasKey(summary_stats, "overview")) =>
              /\ kpi.shown = AllCards
              /\ kpi.total_protocols = SummaryOverview.total_protocols
              /\ kpi.total_tvl = SummaryOverview.total_tvl
              /\ kpi.total_mcap = SummaryOverview.total_market_cap
              /\ kpi.top_category = SummaryOverview.top_category

\* ================================================= more claims about apply_filters
\* C13: on a table without rows, whatever the arguments, apply_filters
\* returns the table it was given and enters none of the predicate blocks.
C13_EmptyTableUnchanged ==
    (Returned /\ f_df.kind = "frame" /\ IsEmpty(f_df)) =>
        /\ f_result.exc = "none"
        /\ f_result.df = f_df
        /\ f_evaluated = {}
C13_Witness ==
    /\ Returned /\ f_df.kind = "frame" /\ IsEmpty(f_df)
    /\ {"Category", "TVL_USD"} \subseteq f_df.cols
    /\ f_categories = ListArg({"DEX"})
    /\ f_tvl_range = TupleRange(<<1, 2>>)
    /\ f_top_n = IntN(1)
    /\ f_result.df = f_df

\* C14: with top_n = "All" the result is the table left by the category
\* and range predicates: the same rows in the same order.
C14_TopNAll ==
    (Returned /\ f_df.kind = "frame" /\ f_top_n = StrN("All")) =>
        /\ f_result.exc = "none"
        /\ f_result.df.rows = QualifyingRows
\* two rows in ascending TVL_USD order come back in that order
C14_Witness ==
    /\ Returned /\ f_top_n = StrN("All")
    /\ "TVL_USD" \in f_df.cols /\ f_df.tvl_dtype = "float64"
    /\ Len(f_df.rows) = 2
    /\ f_df.rows[1].TVL_USD = 1 /\ f_df.rows[2].TVL_USD = 2
    /\ f_categories.kind = "None" /\ f_tvl_range = TupleRange(<<1, 2>>)
    /\ f_result.df.rows = f_df.rows

\* C15: filtering by category twice gives what filtering once gives:
\* apply_filters(apply_filters(T, C), C) has the rows of apply_filters(T, C).
C15_CategoryIdempotent ==
    (f_pc = "returned twice" /\ f_tvl_range.kind = "None" /\ f_top_n.kind = "None") =>
        /\ f_again.exc = "none"
        /\ f_again.df.rows = f_result.df.rows
C15_Witness ==
    /\ f_pc = "returned twice" /\ f_tvl_range.kind = "None" /\ f_top_n.kind = "None"
    /\ f_categories = ListArg({"DEX"})
    /\ Len(f_df.rows) = 2
    /\ f_df.rows[1].Category = "Lending" /\ f_df.rows[2].Category = "DEX"
    /\ f_result.df.rows = <<f_df.rows[2]>>
    /\ f_again.df.rows = <<f_df.rows[2]>>

\* the rows the range predicate leaves, whatever their category
RangeRows ==
    SelectSeq(f_df.rows,
              LAMBDA r : RangeInForce => /\ r.TVL_USD # NaN
                                         /\ f_tvl_range.items[1] <= r.TVL_USD
                                         /\ r.TVL_USD <= f_tvl_range.items[2])
\* the range argument leaves out no TVL_USD value of the table: there is no
\* range, or it runs from the smallest to the largest value of the column
FullRange ==
    \/ f_tvl_range.kind = "None"
    \/ "TVL_USD" \notin f_df.cols
    \/ /\ f_tvl_range.kind = "tuple" /\ Len(f_tvl_range.items) = 2
       /\ \E i \in DOMAIN f_df.rows : f_df.rows[i].TVL_USD # NaN
       /\ \A i \in DOMAIN f_df.rows :
             f_df.rows[i].TVL_USD # NaN =>
                /\ f_tvl_range.items[1] <= f_df.rows[i].TVL_USD
                /\ f_df.rows[i].TVL_USD <= f_tvl_range.items[2]

\* C19: with an empty selected category set no category predicate is
\* applied: the rows of every category come back, subject only to the range
\* and top-N predicates, so a table with rows and a full range gives a
\* result with rows.
C19_EmptySelection ==
    (Returned /\ f_df.kind = "frame" /\ f_categories = ListArg({})) =>
        /\ "category" \notin f_evaluated
        /\ \A k \in DOMAIN f_result.df.rows : InRows(f_result.df.rows[k], RangeRows)
        /\ IF TopNInForce
           THEN Len(f_result.df.rows) = Min(f_top_n.n, Len(RangeRows))
           ELSE f_result.df.rows = RangeRows
        /\ (Len(f_df.rows) > 0 /\ FullRange) => Len(f_result.df.rows) > 0
C19_Witness ==
    /\ Returned /\ f_categories = ListArg({})
    /\ {"Category", "TVL_USD"} \subseteq f_df.cols /\ f_df.tvl_dtype = "float64"
    /\ Len(f_df.rows) = 2
    /\ f_df.rows[1].Category = "DEX" /\ f_df.rows[2].Category = "Lending"
    /\ f_df.rows[1].TVL_USD = 1 /\ f_df.rows[2].TVL_USD = 2
    /\ f_tvl_range = TupleRange(<<1, 2>>)
    /\ f_top_n = StrN("All")
    /\ f_result.df.rows = f_df.rows

\* ================================================= claims about the display
\* the value a card or cell was given is missing
Missing(v) == v.kind \in {"None", "nan"}
Placeholders == {Literal("N/A"), Literal("$0")}

\* C11: a missing value is displayed as "N/A" or "$0": by format_currency,
\* by the Median P/F and Median P/R cards, and by the Avg Gini Coefficient
\* and Avg Top 10 Share cards.
C11_MissingAsPlaceholder ==
    /\ (c_pc = "returned" /\ Missing(amount)) => formatted \in Placeholders
    /\ metric_cards.shown =>
          /\ Missing(metric_cards.avg_pf) => metric_cards.pf_text \in Placeholders
          /\ Missing(metric_cards.avg_pr) => metric_cards.pr_text \in Placeholders
    /\ distribution_cards.shown =>
          /\ Missing(distribution_cards.avg_gini) =>
                distribution_cards.gini_text \in Placeholders
          /\ Missing(distribution_cards.avg_top10) =>
                distribution_cards.top10_text \in Placeholders

\* the documented examples: 1500, 2500000, 3000000000, 999 and 1000
Examples ==
    /\ amount = Num(1500, 0) => formatted = Fixed("$", 150, 2, "K")
    /\ amount = Num(2500, 3) => formatted = Fixed("$", 250, 2, "M")
    /\ amount = Num(3000, 6) => formatted = Fixed("$", 300, 2, "B")
    /\ amount = Num(999, 0) => formatted = Fixed("$", 99900, 2, "")
    /\ amount = Num(1000, 0) => formatted = Fixed("$", 100, 2, "K")
\* the text is the amount divided by 10^k, to the nearest hundredth
NearestHundredth(k) ==
    LET s == amount.e + 2 - k
    IN IF s >= 0 THEN formatted.digits = amount.m * Pow10(s)
       ELSE LET d == formatted.digits * Pow10(-s) - amount.m
            IN 2 * d <= Pow10(-s) /\ 2 * d >= -Pow10(-s)
Bucket(k, suffix) ==
    /\ formatted.kind = "fixed" /\ formatted.s = "$" /\ formatted.decimals = 2
    /\ formatted.suffix = suffix
    /\ NearestHundredth(k)

\* C12: format_currency is the bucket function: "$0" for None, NaN and 0;
\* otherwise the amount over 1e9 with suffix B from 1e9 on, over 1e6 with
\* suffix M from 1e6 on, over 1e3 with suffix K from 1e3 on, and the amount
\* itself below that, always with two decimals.
C12_FormatCurrencyBuckets ==
    c_pc = "returned" =>
        /\ Examples
        /\ IF Missing(amount) \/ amount.m = 0 THEN formatted = Literal("$0")
           ELSE IF AtLeast(amount, 9) THEN Bucket(9, "B")
           ELSE IF AtLeast(amount, 6) THEN Bucket(6, "M")
           ELSE IF AtLeast(amount, 3) THEN Bucket(3, "K")
           ELSE Bucket(0, "")
\* 999999 is still in the K bucket and is written with four integer digits
C12_Witness ==
    /\ c_pc = "returned"
    /\ amount = Num(9999, 2)
    /\ formatted = Fixed("$", 99990, 2, "K")

\* ================================================= more claims about a run
DictTyped == {"financial_rankings", "summary_stats", "raw_token_holders"}
Loaded == pc \notin {"start", "load", "stopped"}
\* the value bound to a dataset name
Bound(key) ==
    CASE key = "tab1_overview" -> tab1_overview
      [] key = "tab2_revenue" -> tab2_revenue
      [] key = "tab2_fees" -> tab2_fees
      [] key = "tab3_metrics" -> tab3_metrics
      [] key = "tab4_distribution" -> tab4_distribution
      [] key = "category_analysis" -> category_analysis
      [] key = "financial_rankings" -> financial_rankings
      [] key = "summary_stats" -> summary_stats
      [] key = "raw_token_holders" -> raw_token_holders

\* C16: a dataset whose file is missing or cannot be read is bound to an
\* empty mapping if it is dict-typed and to an empty table otherwise, and
\* every other dataset is still loaded.
C16_EmptySubstitutes ==
    (Loaded /\ defect.kind \in {"missing", "corrupt"}) =>
        /\ loaded = DataKeys
        /\ IF defect.table \in DictTyped
           THEN Bound(defect.table) = Dict({})
           ELSE Bound(defect.table).kind = "frame" /\ Bound(defect.table).cols = {}
        /\ \A k \in DataKeys \ {defect.table} :
              Bound(k).kind = IF k \in DictTyped THEN "dict" ELSE "frame"

\* C18: once the datasets are loaded no step of the run changes them, nor
\* the files: the filters of the tabs work on derived tables.
C18_NoMutation ==
    [][Loaded => (globals' = globals /\ disk' = disk)]_vars
\* a run to its end in which apply_filters dropped a row, the financial
\* tables were given their categories and Tab 4 filtered by level
C18_Witness ==
    /\ pc = "done"
    /\ concentration_filter = "Low (0-25%)"
    /\ Len(tab1_overview.rows) = 2 /\ Len(filtered_overview.rows) = 1
    /\ ~ShapeEmpty(tab2_revenue) /\ ~ShapeEmpty(tab4_distribution)
    /\ tab1_overview = overview_file

\* the selections the widgets have when the user touched none of them
DefaultSelections ==
    /\ selected_categories = DefaultCategories(tab1_overview)
    /\ tvl_range = TupleRange(DefaultRange(tab1_overview))
    /\ top_n = StrN("All")
Filtered == filtered_overview.kind = "frame" /\ ~IsEmpty(tab1_overview)

\* C20: under the default selections the filtered overview holds the rows
\* of the loaded table that have a TVL_USD and, when the table names any
\* category, a Category; rows with a null in one of the two are left out.
C20_Defaults ==
    (Filtered /\ DefaultSelections) =>
        filtered_overview.rows =
            SelectSeq(tab1_overview.rows,
                      LAMBDA r : /\ r.TVL_USD # NaN
                                 /\ available_categories(tab1_overview) # {} =>
                                       r.Category # NullCat)
\* C20 as stated: every row of the loaded table, null ones included
C20_AsStated ==
    (Filtered /\ DefaultSelections) => filtered_overview.rows = tab1_overview.rows
C20_Witness ==
    /\ Filtered /\ DefaultSelections
    /\ Len(tab1_overview.rows) = 2
    /\ tab1_overview.rows[1].Category = "DEX" /\ tab1_overview.rows[1].TVL_USD = 1
    /\ tab1_overview.rows[2].Category = NullCat /\ tab1_overview.rows[2].TVL_USD = 2
    /\ filtered_overview.rows = <<tab1_overview.rows[1]>>

\* ================================================= claims about a session
SameSelections ==
    /\ snapshot.selected_categories = selected_categories
    /\ snapshot.tvl_range = tvl_range
    /\ snapshot.top_n = top_n
    /\ snapshot.concentration_filter = concentration_filter

\* C17: two runs over the same files and under the same selections display
\* the same: header, derived table, KPI values, tabs, and the same end.
C17_RenderIsFunction ==
    (snapshot.taken /\ Ended /\ SameSelections) =>
        /\ snapshot.header = header
        /\ snapshot.filtered_overview = filtered_overview
        /\ snapshot.kpi = kpi
        /\ snapshot.rendered = rendered
        /\ snapshot.exception = exception
        /\ snapshot.pc = pc

\* ================================================= claims about the category merge
\* the name without its leading and trailing blanks
Trimmed(s) ==
    LET inked == {i \in DOMAIN s : s[i] # " "}
    IN IF inked = {} THEN << >>
       ELSE SubSeq(s, CHOOSE i \in inked : \A j \in inked : i <= j,
                      CHOOSE i \in inked : \A j \in inked : i >= j)
\* two names match: neither is null and, trimmed, they differ in case at most
SameName(a, b) ==
    /\ a # NullName /\ b # NullName
    /\ LET s == Trimmed(a)
           t == Trimmed(b)
       IN /\ Len(s) = Len(t)
          /\ \A i \in DOMAIN s : s[i] = t[i] \/ {s[i], t[i]} \in {{"a", "A"}, {"b", "B"}}
UniqueNames(rows) ==
    \A i, j \in DOMAIN rows : rows[i].Protocol = rows[j].Protocol => i = j
MergeReturned ==
    /\ m_pc = "returned"
    /\ financial_df.rows # << >> /\ overview_df.rows # << >>
\* the Category the merge owes the financial row f
Owed(f, c) ==
    LET matching == {j \in DOMAIN overview_df.rows :
                        SameName(overview_df.rows[j].Protocol, f.Protocol)}
    IN IF matching = {} THEN c = "Other"
       ELSE \E j \in matching : c = overview_df.rows[j].Category

\* C21: with non-empty tables and unique overview names, the result has one row
\* per financial row, in order, with the category of the matching overview
\* protocol, or "Other" when none matches.
C21_OneRowPerFinancialRow ==
    (MergeReturned /\ UniqueNames(overview_df.rows)) =>
        /\ merged.exc = "none"
        /\ Len(merged.rows) = Len(financial_df.rows)
        /\ \A i \in DOMAIN financial_df.rows :
              /\ merged.rows[i].Protocol = financial_df.rows[i].Protocol
              /\ merged.rows[i].Revenue_24h = financial_df.rows[i].Revenue_24h
              /\ Owed(financial_df.rows[i], merged.rows[i].Category)
====
